---- MODULE Spec2Model ----
(***************************************************************************)
(* A model of scripts/gen_jct_vc.py: the HREFParser link extractor, the    *)
(* JCTVTGenerator.generate orchestration (fetch listing, build manifest,   *)
(* download, per-vector resolution, persist), the artifact locator         *)
(* _find_by_ext and the H.265 checksum extractor _fill_checksum_h265.      *)
(*                                                                         *)
(* Python strings are modelled as sequences of one-character strings, so   *)
(* that split, strip, upper, startswith, endswith and `in` are computed    *)
(* the way Python computes them.  The str methods that the code chains     *)
(* (split, strip, upper, readline) are functions on strings: a function is *)
(* applied to the value of its argument, as a method is to its receiver.   *)
(***************************************************************************)
EXTENDS Integers, Sequences, FiniteSets, TLC

\* ------------------------------------------------------------------ bounds

\* Most start tags on one listing page.
MaxTags == 2
\* Most comment/blank lines in front of the first substantive checksum line.
MaxPrefix == 2
\* Most files the walk of a directory yields per sub-directory.
MaxFiles == 2

\* ------------------------------------------------- module-level constants

BASE_URL == <<"h","t","t","p","s",":","/","/","w","w","w",".","i","t","u",".","i","n","t","/">>

BITSTREAM_EXTS ==
    << <<".","b","i","n">>, <<".","b","i","t">>, <<".","2","6","4">>,
       <<".","h","2","6","4">>, <<".","j","v","c">>, <<".","j","s","v">>,
       <<".","j","v","t">>, <<".","a","v","c">>, <<".","2","6","l">> >>

MD5_EXTS ==
    << <<"y","u","v",".","m","d","5">>, <<".","m","d","5">>,
       <<"m","d","5",".","t","x","t">> >>

MD5_EXCLUDES ==
    << <<"_","_","M","A","C","O","S","X">>, <<".","b","i","n",".","m","d","5">>,
       <<"b","i","t",".","m","d","5">> >>

RAW_EXTS == << <<".","y","u","v">>, <<".","q","c","i","f">> >>

\* The literal '00readme_H' tested in generate.
README_MARK == <<"0","0","r","e","a","d","m","e","_","H">>

\* The literal '.bin' of "{name}.bin".
BIN_SUFFIX == <<".","b","i","n">>

\* The literal 'resources' of os.path.join('resources', ...).
RESOURCES == <<"r","e","s","o","u","r","c","e","s">>

\* os.sep on the platforms the script runs on.
SEP == <<"/">>

\* Python's None; no string is equal to it.
None == <<"<None>">>

\* The suite names the two generators of __main__ are built with.
SuiteName(c) ==
    IF c = "H265"
    THEN <<"J","C","T","-","V","C","-","H","E","V","C","_","V","1">>
    ELSE <<"J","V","T","-","A","V","C","_","V","1">>

\* ------------------------------------------------------- Python's str API

\* Python strings: finite sequences of characters.
Str == Seq(STRING)

\* `sub in s`
Contains(s, sub) ==
    \E i \in 0..(Len(s) - Len(sub)) : SubSeq(s, i + 1, i + Len(sub)) = sub

\* s.startswith(pre)
StartsWith(s, pre) ==
    Len(pre) <= Len(s) /\ SubSeq(s, 1, Len(pre)) = pre

\* s.endswith(suf)
EndsWith(s, suf) ==
    Len(suf) <= Len(s) /\ SubSeq(s, Len(s) - Len(suf) + 1, Len(s)) = suf

\* s.startswith(t) / s.endswith(t) for a tuple t of strings
StartsWithAny(s, pres) == \E k \in 1..Len(pres) : StartsWith(s, pres[k])
EndsWithAny(s, sufs) == \E k \in 1..Len(sufs) : EndsWith(s, sufs[k])

\* s.split(c) for a one-character separator c: the list of the pieces
\* between the occurrences of c, one more piece than occurrences.
Split[s \in Str, c \in STRING] ==
    LET seps == { i \in 1..Len(s) : s[i] = c }
        \* position of the k-th occurrence; 0 and Len(s) + 1 bracket them
        sep(k) == IF k = 0 THEN 0
                  ELSE IF k > Cardinality(seps) THEN Len(s) + 1
                  ELSE CHOOSE i \in seps : Cardinality({ j \in seps : j <= i }) = k
    IN  [k \in 1..(Cardinality(seps) + 1) |-> SubSeq(s, sep(k - 1) + 1, sep(k) - 1)]

\* The characters str.strip() removes among those the model uses.
Whitespace == {" ", "\n", "\t", "\r"}

\* s.strip(): s without its leading and trailing whitespace.
Strip[s \in Str] ==
    LET solid == { i \in 1..Len(s) : s[i] \notin Whitespace }
    IN  IF solid = {} THEN << >>
        ELSE SubSeq(s, CHOOSE i \in solid : \A j \in solid : i <= j,
                       CHOOSE i \in solid : \A j \in solid : j <= i)

LowerChars == <<"a","b","c","d","e","f","g","h","i","j","k","l","m",
                "n","o","p","q","r","s","t","u","v","w","x","y","z">>
UpperChars == <<"A","B","C","D","E","F","G","H","I","J","K","L","M",
                "N","O","P","Q","R","S","T","U","V","W","X","Y","Z">>

UpperChar(ch) ==
    IF \E k \in 1..Len(LowerChars) : LowerChars[k] = ch
    THEN UpperChars[CHOOSE k \in 1..Len(LowerChars) : LowerChars[k] = ch]
    ELSE ch

\* s.upper()
Upper[s \in Str] == [i \in 1..Len(s) |-> UpperChar(s[i])]

\* `not x` for a value that is a string or None
Falsy(x) == x = None \/ x = << >>

\* os.path.join(a, b) for relative components
PathJoin(a, b) == a \o SEP \o b

\* ------------------------------------------------------------------ state

VARIABLES
    pc,            \* where the script is: "start", "build", "download",
                   \* "resolve", "fill", "persist", "done", "crashed"
    codec,         \* self.codec of the generator whose generate is running
    download,      \* not args.skip_download
    links,         \* HREFParser.links, the list defined in the class body
    page,          \* the start tags of the listing page fed in this run
    test_vectors,  \* test_suite.test_vectors of this run
    idx,           \* position of the per-vector loop in test_vectors
    dir,           \* what os.walk(dest_dir) yields for the current vector
    cf_content,    \* text of the checksum file opened by _fill_checksum_h265
    cf_pos,        \* read position of that file object
    written,       \* names of the suites to_json_file has been called for
    error,         \* message of the exception that ended the process
    shape,         \* the checksum file's composition (prefix, line, tail)
    find_args,     \* arguments of a _find_by_ext call
    found          \* what that call returned

vars == << pc, codec, download, links, page, test_vectors, idx, dir,
           cf_content, cf_pos, written, error, shape, find_args, found >>

NoError == "none"
Unset == <<"<unset>">>

\* ------------------------------------------------------------- HREFParser

\* The body of the `for name, value in attrs` loop of handle_starttag.
RECURSIVE AppendHrefs(_, _)
AppendHrefs(ls, attrs) ==
    IF attrs = << >> THEN ls
    ELSE AppendHrefs(IF Head(attrs)[1] = "href"
                     THEN Append(ls, BASE_URL \o Head(attrs)[2])
                     ELSE ls,
                     Tail(attrs))

\* HREFParser.handle_starttag: self.links resolves to the class attribute.
HandleStartTag(ls, t) ==
    IF t.tag = "a" THEN AppendHrefs(ls, t.attrs) ELSE ls

\* hparser.feed(data): handle_starttag is called for each start tag in turn.
RECURSIVE Feed(_, _)
Feed(ls, tags) ==
    IF tags = << >> THEN ls
    ELSE Feed(HandleStartTag(ls, Head(tags)), Tail(tags))

\* --------------------------------------------------------- manifest build

\* TestVector(name, source, source_hash, input, result)
TestVector(name, source, source_hash, input, result) ==
    [name |-> name, source |-> source, source_hash |-> source_hash,
     input |-> input, result |-> result]

Last(s) == s[Len(s)]

\* The loop `for url in hparser.links[1:]` of generate.
RECURSIVE BuildLoop(_, _)
BuildLoop(tvs, urls) ==
    IF urls = << >> THEN tvs
    ELSE LET url == Head(urls)
             file_url == Last(Split[url, "/"])
             name == Split[file_url, "."][1]
             file_input == name \o BIN_SUFFIX
         IN  IF Contains(url, README_MARK)
             THEN BuildLoop(tvs, Tail(urls))
             ELSE BuildLoop(Append(tvs, TestVector(name, url, << >>, file_input, << >>)),
                            Tail(urls))

\* A faulty variant of the slice: hparser.links, the first link kept.
SliceAll(ls) == ls

\* hparser.links[1:]
Slice1(ls) == SubSeq(ls, 2, Len(ls))

\* -------------------------------------------------------- artifact locator

\* A faulty variant of the scan: the exclusions are tested against the file
\* name instead of the path.
RECURSIVE FindInFilesByName(_, _, _, _)
FindInFilesByName(subdir, files, exts, excludes) ==
    IF files = << >> THEN None
    ELSE LET filepath == subdir \o SEP \o Head(files)
             excluded == \E k \in 1..Len(excludes) : Contains(Head(files), excludes[k])
         IN  IF ~excluded /\ EndsWithAny(filepath, exts)
             THEN filepath
             ELSE FindInFilesByName(subdir, Tail(files), exts, excludes)

\* The files of one (subdir, _, files) triple of os.walk, scanned in order.
RECURSIVE FindInFiles(_, _, _, _)
FindInFiles(subdir, files, exts, excludes) ==
    IF files = << >> THEN None
    ELSE LET filepath == subdir \o SEP \o Head(files)
             excluded == \E k \in 1..Len(excludes) : Contains(filepath, excludes[k])
         IN  IF ~excluded /\ EndsWithAny(filepath, exts)
             THEN filepath
             ELSE FindInFiles(subdir, Tail(files), exts, excludes)

\* JCTVTGenerator._find_by_ext over what os.walk(dest_dir) yields; an
\* omitted `excludes` is the empty list.
RECURSIVE FindByExt(_, _, _)
FindByExt(walk, exts, excludes) ==
    IF walk = << >> THEN None
    ELSE LET hit == FindInFiles(Head(walk).subdir, Head(walk).files, exts, excludes)
         IN  IF hit # None THEN hit
             ELSE FindByExt(Tail(walk), exts, excludes)

\* ------------------------------------------------------ checksum extractor

\* checksum_file.readline(): through the next newline, the rest of the file
\* when there is none, '' at end of file.
ReadLine[content \in Str, pos \in Nat] ==
    IF pos >= Len(content) THEN << >>
    ELSE IF \E j \in (pos + 1)..Len(content) : content[j] = "\n"
         THEN LET j == CHOOSE i \in (pos + 1)..Len(content) :
                           content[i] = "\n"
                           /\ \A k \in (pos + 1)..(i - 1) : content[k] # "\n"
              IN  SubSeq(content, pos + 1, j)
         ELSE SubSeq(content, pos + 1, Len(content))

\* A faulty variant of the test: line.startswith('#'), blank lines not
\* skipped.
SkipCommentOnly(line) == StartsWith(line, <<"#">>)

\* A faulty variant of the test: a comment, or nothing but whitespace --
\* which the '' that readline returns at end of file is too.
SkipCommentOrEmpty(line) == StartsWith(line, <<"#">>) \/ Strip[line] = << >>

\* line.startswith(('#', '\n'))
SkipLine(line) == StartsWithAny(line, << <<"#">>, <<"\n">> >>)

\* The value assigned to test_vector.result from a line that is not skipped.
LineResult[line \in Str] ==
    IF Contains(line, <<"=">>)
    THEN Upper[Strip[Last(Split[line, "="])]]
    ELSE Upper[Split[Split[line, " "][1], "\n"][1]]

\* utils.file_checksum(path): the hex digest of the file's bytes.
FileChecksum(path) == <<"d","4","1","d","8","c">>

\* ----------------------------------------------------------------- inputs

SeqsUpTo(S, n) == UNION { [1..k -> S] : k \in 0..n }

\* href values of a listing: a vector in a sub-path, a vector with two
\* dots in its file name, and the readme entry.
HrefA == <<"x","/","A","_","1",".","z","i","p">>
HrefB == <<"B",".","b",".","z","i","p">>
HrefReadme == <<"x","/","0","0","r","e","a","d","m","e","_","H",".","t">>

Anchor(h) == [tag |-> "a", attrs |-> << <<"href", h>> >>]

\* Start tags as HTMLParser hands them to handle_starttag: anchors with an
\* href (alone, or after another attribute), and a tag that is no anchor.
TagSet ==
    { Anchor(HrefA),
      [tag |-> "a", attrs |-> << <<"name", <<"t">> >>, <<"href", HrefB>> >>],
      Anchor(HrefReadme),
      [tag |-> "link", attrs |-> << <<"href", HrefA>> >>] }

Pages == SeqsUpTo(TagSet, MaxTags)

\* A directory as os.walk lists it: per visited directory its path below
\* the root and its files.
BitFile == <<"s",".","b","i","t">>
Md5File == <<"s",".","m","d","5">>
YuvFile == <<"s",".","y","u","v">>
BinMd5File == <<"s",".","b","i","n",".","m","d","5">>
MacDir == <<"/","_","_","M","A","C","O","S","X">>
SubDir == <<"/","s">>

WalkAt(root, layout) ==
    [k \in 1..Len(layout) |->
        [subdir |-> root \o layout[k].sub, files |-> layout[k].files]]

\* The per-vector directories of the generate runs: missing, holding only
\* the bitstream, holding the bitstream with its checksum and raw files.
SpecLayouts ==
    { << >>,
      << [sub |-> << >>, files |-> << BitFile >>] >>,
      << [sub |-> << >>, files |-> << BinMd5File, BitFile >>],
         [sub |-> SubDir, files |-> << Md5File, YuvFile >>] >> }

\* Checksum file texts of the generate runs: empty, a comment only, a first
\* line starting with a space, and a line in layout 1.
SpecContents ==
    { << >>,
      <<"#","c","\n">>,
      <<" ","a","\n">>,
      <<"a","b"," ","*","w",".","b","i","t","\n">> }

\* ---------------------------------------------------------------- actions

\* The for loop over test_suite.test_vectors moves on, or is exhausted.
AfterVector(i, tvs) == IF i < Len(tvs) THEN "resolve" ELSE "persist"

\* generate, lines 75-83: a new suite and parser, the listing is fetched
\* and fed to the parser.
Fetch ==
    /\ pc = "start"
    /\ \E p \in Pages :
          /\ page' = p
          /\ links' = Feed(links, p)
    /\ test_vectors' = << >>
    /\ idx' = 0
    /\ dir' = << >>
    /\ pc' = "build"
    /\ UNCHANGED << codec, download, cf_content, cf_pos, written, error,
                    shape, find_args, found >>

\* generate, lines 85-93: the placeholder manifest.
Build ==
    /\ pc = "build"
    /\ test_vectors' = BuildLoop(test_vectors, Slice1(links))
    /\ pc' = "download"
    /\ UNCHANGED << codec, download, links, page, idx, dir, cf_content, cf_pos,
                    written, error, shape, find_args, found >>

\* generate, lines 95-96: the download changes nothing the script holds.
Download ==
    /\ pc = "download"
    /\ idx' = 1
    /\ pc' = AfterVector(0, test_vectors)
    /\ UNCHANGED << codec, download, links, page, test_vectors, dir, cf_content,
                    cf_pos, written, error, shape, find_args, found >>

\* One pass of the loop of lines 98-110 for the vector at idx, whose
\* directory lists as `layout` and whose checksum file reads `content`:
\* through _fill_checksum_h264, or _fill_checksum_h265 up to the open.
Resolve(layout, content) ==
    /\ pc = "resolve"
    /\ idx \in 1..Len(test_vectors)
    /\ LET tv == test_vectors[idx]
           dest_dir == PathJoin(PathJoin(RESOURCES, SuiteName(codec)), tv.name)
           dest_path == PathJoin(dest_dir, Last(Split[tv.source, "/"]))
           walk == WalkAt(dest_dir, layout)
           input == FindByExt(walk, BITSTREAM_EXTS, << >>)
           tv1 == [tv EXCEPT !.input = input]
           tv2 == [tv1 EXCEPT !.source_hash = FileChecksum(dest_path)]
           checksum_file == FindByExt(walk, MD5_EXTS, MD5_EXCLUDES)
           raw_file == FindByExt(walk, RAW_EXTS, << >>)
           tv3 == [tv2 EXCEPT !.result = FileChecksum(raw_file)]
       IN  /\ dir' = walk
           /\ IF Falsy(input)
              THEN /\ test_vectors' = [test_vectors EXCEPT ![idx] = tv1]
                   /\ error' = "Bitstream file not found"
                   /\ pc' = "crashed"
                   /\ UNCHANGED << idx, cf_content, cf_pos >>
              ELSE IF codec = "H265"
              THEN /\ test_vectors' = [test_vectors EXCEPT ![idx] = tv2]
                   /\ IF checksum_file = None
                      THEN /\ error' = "MD5 not found"
                           /\ pc' = "crashed"
                           /\ UNCHANGED << idx, cf_content, cf_pos >>
                      ELSE /\ cf_content' = content
                           /\ cf_pos' = 0
                           /\ pc' = "fill"
                           /\ UNCHANGED << idx, error >>
              ELSE IF raw_file = None
              THEN /\ test_vectors' = [test_vectors EXCEPT ![idx] = tv2]
                   /\ error' = "RAW file not found"
                   /\ pc' = "crashed"
                   /\ UNCHANGED << idx, cf_content, cf_pos >>
              ELSE /\ test_vectors' = [test_vectors EXCEPT ![idx] = tv3]
                   /\ idx' = idx + 1
                   /\ pc' = AfterVector(idx, test_vectors)
                   /\ UNCHANGED << cf_content, cf_pos, error >>
    /\ UNCHANGED << codec, download, links, page, written, shape, find_args, found >>

\* One pass of the `while True` loop of _fill_checksum_h265, lines 135-144:
\* a skipped line continues; any other line sets the result and breaks, the
\* file is closed and the loop of generate moves on.
FillStep ==
    /\ pc = "fill"
    /\ LET line == ReadLine[cf_content, cf_pos]
       IN  IF SkipLine(line)
           THEN /\ cf_pos' = cf_pos + Len(line)
                /\ UNCHANGED << pc, idx, test_vectors, cf_content >>
           ELSE /\ test_vectors' = [test_vectors EXCEPT ![idx].result = LineResult[line]]
                /\ cf_content' = Unset
                /\ cf_pos' = 0
                /\ idx' = idx + 1
                /\ pc' = AfterVector(idx, test_vectors)
    /\ UNCHANGED << codec, download, links, page, dir, written, error,
                    shape, find_args, found >>

\* A faulty variant of the write: to_json_file in a `finally`, reached from
\* a failed run too.
PersistInFinally ==
    /\ pc \in {"persist", "crashed"}
    /\ \A i \in 1..Len(written) : written[i] # SuiteName(codec)
    /\ written' = Append(written, SuiteName(codec))
    /\ pc' = IF pc = "crashed" THEN "crashed"
             ELSE IF codec = "H265" THEN "start" ELSE "done"
    /\ codec' = IF pc = "persist" /\ codec = "H265" THEN "H264" ELSE codec
    /\ UNCHANGED << download, links, page, test_vectors, idx, dir, cf_content,
                    cf_pos, error, shape, find_args, found >>

\* generate, lines 112-113, and the return to __main__, lines 166-171: the
\* manifest is written; after the H.265 generator comes the H.264 one.
Persist ==
    /\ pc = "persist"
    /\ written' = Append(written, SuiteName(codec))
    /\ IF codec = "H265"
       THEN codec' = "H264" /\ pc' = "start"
       ELSE codec' = codec /\ pc' = "done"
    /\ UNCHANGED << download, links, page, test_vectors, idx, dir, cf_content,
                    cf_pos, error, shape, find_args, found >>

NoShape == [kind |-> "unused"]
NoArgs == [kind |-> "unused"]

\* The script from its start: the class body has run (links = []), the
\* arguments are parsed, the H.265 generator is about to generate.
Init ==
    /\ pc = "start"
    /\ codec = "H265"
    /\ download \in BOOLEAN
    /\ links = << >>
    /\ page = << >>
    /\ test_vectors = << >>
    /\ idx = 0
    /\ dir = << >>
    /\ cf_content = Unset
    /\ cf_pos = 0
    /\ written = << >>
    /\ error = NoError
    /\ shape = NoShape
    /\ find_args = NoArgs
    /\ found = Unset

ResolveAny == \E layout \in SpecLayouts, content \in SpecContents : Resolve(layout, content)

Next == Fetch \/ Build \/ Download \/ ResolveAny \/ FillStep \/ Persist

Spec == Init /\ [][Next]_vars

\* ------------------------------------------- the checksum extractor alone

RECURSIVE Concat(_)
Concat(ss) == IF ss = << >> THEN << >> ELSE Head(ss) \o Concat(Tail(ss))

CommentLine == <<"#","c","\n">>
BlankLine == <<"\n">>
Prefixes == { Concat(ls) : ls \in SeqsUpTo({CommentLine, BlankLine}, MaxPrefix) }

Hashes == { <<"a","1">>, <<"f","e">> }
Fnames == { <<"w",".","b","i","t">>, <<"r","=","y">> }

\* `<hash> *<filename>`
Layout1(h, f) == h \o <<" ","*">> \o f
\* `MD5 (<filename>) = <hash>`
Layout2(h, f) == <<"M","D","5"," ","(">> \o f \o <<")"," ","="," ">> \o h

\* First substantive lines in neither layout: a leading space, a lone `=`,
\* a lone space.
OddLines == { <<" ","a">>, <<"=">>, <<" ">> }

\* What may follow the first substantive line.
Tails ==
    { << >>,
      <<"#","c","\n">>,
      <<"f","f"," ","*","q","\n">>,
      <<"x"," ","="," ","f","f","\n">> }

\* A checksum file: comment and blank lines, then a first substantive line
\* (terminated, and followed by a tail, or ending the file), or no
\* substantive line at all (the file may end in an unterminated comment).
Shapes ==
    { [kind |-> "layout1", prefix |-> p, hash |-> h, fname |-> f,
       line |-> Layout1(h, f) \o e, tail |-> t] :
         p \in Prefixes, h \in Hashes, f \in Fnames, e \in {<<"\n">>}, t \in Tails }
    \cup
    { [kind |-> "layout1", prefix |-> p, hash |-> h, fname |-> f,
       line |-> Layout1(h, f), tail |-> << >>] :
         p \in Prefixes, h \in Hashes, f \in Fnames }
    \cup
    { [kind |-> "layout2", prefix |-> p, hash |-> h, fname |-> f,
       line |-> Layout2(h, f) \o e, tail |-> t] :
         p \in Prefixes, h \in Hashes, f \in Fnames, e \in {<<"\n">>}, t \in Tails }
    \cup
    { [kind |-> "layout2", prefix |-> p, hash |-> h, fname |-> f,
       line |-> Layout2(h, f), tail |-> << >>] :
         p \in Prefixes, h \in Hashes, f \in Fnames }
    \cup
    { [kind |-> "odd", prefix |-> p, hash |-> << >>, fname |-> << >>,
       line |-> l \o <<"\n">>, tail |-> t] :
         p \in Prefixes, l \in OddLines, t \in Tails }
    \cup
    { [kind |-> "none", prefix |-> p, hash |-> << >>, fname |-> << >>,
       line |-> << >>, tail |-> t] :
         p \in Prefixes, t \in { << >>, <<"#","c">> } }

\* The text of the file of shape s.
FileOf(s) == s.prefix \o s.line \o s.tail

\* The first vector's checksum file is the file of `shape`; the second
\* vector's holds the first substantive line of it and nothing else.
ChecksumContent == IF idx = 1 THEN FileOf(shape) ELSE shape.line

\* A directory with a bitstream and a checksum file.
Md5Layout == << [sub |-> << >>, files |-> << BitFile, Md5File >>] >>

ChecksumPage == << Anchor(HrefReadme), Anchor(HrefA), Anchor(HrefB) >>

\* The H.265 run after the download of a listing of two vectors, with the
\* checksum file of the first vector of any shape.
ChecksumInit ==
    /\ pc = "resolve"
    /\ codec = "H265"
    /\ download = TRUE
    /\ page = ChecksumPage
    /\ links = Feed(<< >>, ChecksumPage)
    /\ test_vectors = BuildLoop(<< >>, Slice1(Feed(<< >>, ChecksumPage)))
    /\ idx = 1
    /\ dir = << >>
    /\ cf_content = Unset
    /\ cf_pos = 0
    /\ written = << >>
    /\ error = NoError
    /\ shape \in Shapes
    /\ find_args = NoArgs
    /\ found = Unset

ResolveChecksum == Resolve(Md5Layout, ChecksumContent)

ChecksumNext == ResolveChecksum \/ FillStep

\* The script runs on: a step that can be taken is taken.
ChecksumSpec == ChecksumInit /\ [][ChecksumNext]_vars /\ WF_vars(ChecksumNext)

\* -------------------------------------------- the artifact locator alone

FileNames == { BitFile, Md5File, YuvFile, BinMd5File }

\* Sequences of distinct file names.
FileLists ==
    { fs \in SeqsUpTo(FileNames, MaxFiles) :
        \A i, j \in 1..Len(fs) : i # j => fs[i] # fs[j] }

FindRoot == <<"r","/","v">>

\* A missing directory, a flat one, or one with a sub-directory.
FindLayouts ==
    { << >> }
    \cup { << [sub |-> << >>, files |-> fs] >> : fs \in FileLists }
    \cup { << [sub |-> << >>, files |-> fs], [sub |-> d, files |-> gs] >> :
             fs \in FileLists, gs \in FileLists, d \in {MacDir, SubDir} }

\* The (exts, excludes) pairs of the three call sites, and the pair
\* ('.md5',), ('.bin.md5',).
FindFilters ==
    { [exts |-> BITSTREAM_EXTS, excludes |-> << >>],
      [exts |-> RAW_EXTS, excludes |-> << >>],
      [exts |-> MD5_EXTS, excludes |-> MD5_EXCLUDES],
      [exts |-> << <<".","m","d","5">> >>,
       excludes |-> << <<".","b","i","n",".","m","d","5">> >>] }

FindInit ==
    /\ pc = "find"
    /\ codec = "H265"
    /\ download = TRUE
    /\ links = << >>
    /\ page = << >>
    /\ test_vectors = << >>
    /\ idx = 0
    /\ dir = << >>
    /\ cf_content = Unset
    /\ cf_pos = 0
    /\ written = << >>
    /\ error = NoError
    /\ shape = NoShape
    /\ \E l \in FindLayouts, f \in FindFilters :
          find_args = [walk |-> WalkAt(FindRoot, l), exts |-> f.exts,
                       excludes |-> f.excludes]
    /\ found = Unset

\* self._find_by_ext(dest_dir, exts, excludes) is called and returns.
FindCall ==
    /\ pc = "find"
    /\ found' = FindByExt(find_args.walk, find_args.exts, find_args.excludes)
    /\ pc' = "found"
    /\ UNCHANGED << codec, download, links, page, test_vectors, idx, dir,
                    cf_content, cf_pos, written, error, shape, find_args >>

FindNext == FindCall

FindSpec == FindInit /\ [][FindNext]_vars

\* ----------------------------------------------------------- properties

Range(s) == { s[i] : i \in 1..Len(s) }

\* The anchors of the fed page that carry an href, in document order.
IsHrefAnchor(t) == t.tag = "a" /\ \E k \in 1..Len(t.attrs) : t.attrs[k][1] = "href"
HrefOf(t) == t.attrs[CHOOSE k \in 1..Len(t.attrs) : t.attrs[k][1] = "href"][2]
HrefAnchors(tags) == SelectSeq(tags, IsHrefAnchor)

\* Some file under the walk is not excluded and carries one of the suffixes.
PathAt(walk, k, j) == walk[k].subdir \o SEP \o walk[k].files[j]
Matches(path, exts, excludes) ==
    /\ \A e \in 1..Len(excludes) : ~Contains(path, excludes[e])
    /\ \E x \in 1..Len(exts) : EndsWith(path, exts[x])
Hits(walk, exts, excludes) ==
    { h \in UNION { {<<k, j>> : j \in 1..Len(walk[k].files)} : k \in 1..Len(walk) } :
        Matches(PathAt(walk, h[1], h[2]), exts, excludes) }
Before(a, b) == a[1] < b[1] \/ (a[1] = b[1] /\ a[2] < b[2])

\* C1: whenever generate reaches to_json_file, every TestVector of the suite
\* has a non-empty result and a located (non-empty, non-None) input.
C1_PersistedVectorsComplete ==
    pc = "persist" =>
        \A i \in 1..Len(test_vectors) :
            ~Falsy(test_vectors[i].result) /\ ~Falsy(test_vectors[i].input)

\* C2: after each feed, the links the parser exposes to the run are exactly
\* BASE_URL + href for the anchors with an href of the page fed in this
\* run, in document order -- in the second run as in the first.
C2_LinksOfThisParse ==
    pc = "build" =>
        LET hs == HrefAnchors(page)
        IN  /\ Len(links) = Len(hs)
            /\ \A i \in 1..Len(hs) : links[i] = BASE_URL \o HrefOf(hs[i])

\* The first vector's checksum has been extracted without an error.
FirstFilled == idx > 1 /\ error = NoError

\* C3: from a first substantive line `<hash> *<filename>` the extractor
\* stores the upper-cased hash (the token before the first space), and from
\* `MD5 (<filename>) = <hash>` the upper-cased hash (the trimmed text after
\* the last `=`), for every hash and every file name.
C3_LayoutTokens ==
    (FirstFilled /\ shape.kind \in {"layout1", "layout2"}) =>
        test_vectors[1].result = Upper[shape.hash]

\* C4: _fill_checksum_h265 never completes normally with an empty result: a
\* file without a substantive line, or whose first substantive line yields
\* no token, ends in an error instead.
C4_NoEmptyResult ==
    FirstFilled => test_vectors[1].result # << >>

\* Locating the bitstream, the checksum file or the raw file fails in `walk`.
LocateFails(walk) ==
    \/ Hits(walk, BITSTREAM_EXTS, << >>) = {}
    \/ codec = "H265" /\ Hits(walk, MD5_EXTS, MD5_EXCLUDES) = {}
    \/ codec = "H264" /\ Hits(walk, RAW_EXTS, << >>) = {}

\* C5: the manifest of a run is written at most once, from the point where
\* every vector of the suite has been resolved and no error was raised; a
\* vector whose bitstream, raw or checksum file cannot be located ends the
\* run there, after which nothing more is processed or written.
C5_FailFast ==
    [][ /\ (written' # written =>
              /\ pc = "persist" /\ error = NoError
              /\ SuiteName(codec) \notin Range(written)
              /\ written' = Append(written, SuiteName(codec))
              /\ idx = Len(test_vectors) + 1
              /\ \A i \in 1..Len(test_vectors) :
                    StartsWith(test_vectors[i].input, RESOURCES \o SEP))
        /\ ((pc = "resolve" /\ LocateFails(dir')) =>
              /\ pc' = "crashed" /\ error' # NoError
              /\ idx' = idx /\ written' = written)
        /\ (pc = "crashed" => FALSE)
      ]_vars

\* A run ended at its second vector, after the first run wrote its manifest.
C5_Witness ==
    /\ pc = "crashed" /\ codec = "H264" /\ idx = 2
    /\ written = << SuiteName("H265") >>
    /\ StartsWith(test_vectors[1].input, RESOURCES \o SEP)
    /\ test_vectors[2].input = None

\* C6: _find_by_ext returns the first file in walk order whose path holds
\* no exclusion substring and ends with one of the suffixes, and None
\* exactly when there is none; with one `.md5` and one `.bin.md5` file,
\* exts ('.md5',) and excludes ('.bin.md5',), it returns the `.md5` file in
\* whichever order the two are visited.
C6_FirstMatchOrNone ==
    pc = "found" =>
        LET w == find_args.walk
            hs == Hits(w, find_args.exts, find_args.excludes)
            names == { w[h[1]].files[h[2]] :
                        h \in UNION { {<<k, j>> : j \in 1..Len(w[k].files)} :
                                        k \in 1..Len(w) } }
            nfiles == Cardinality(UNION { {<<k, j>> : j \in 1..Len(w[k].files)} :
                                            k \in 1..Len(w) })
        IN  /\ (found = None) <=> (hs = {})
            /\ hs # {} =>
                 \E h \in hs :
                    /\ found = PathAt(w, h[1], h[2])
                    /\ \A g \in hs : g = h \/ Before(h, g)
            /\ ( /\ find_args.exts = << <<".","m","d","5">> >>
                 /\ find_args.excludes = << <<".","b","i","n",".","m","d","5">> >>
                 /\ nfiles = 2
                 /\ names = {Md5File, BinMd5File} )
               => ( /\ found # None
                    /\ EndsWith(found, SEP \o Md5File) )

\* The `.bin.md5` file is visited before the `.md5` file, which is returned.
C6_Witness ==
    /\ pc = "found"
    /\ find_args.exts = << <<".","m","d","5">> >>
    /\ find_args.excludes = << <<".","b","i","n",".","m","d","5">> >>
    /\ Len(find_args.walk) = 2
    /\ find_args.walk[1].files = << BinMd5File >>
    /\ find_args.walk[2].files = << Md5File >>
    /\ found = find_args.walk[2].subdir \o SEP \o Md5File

\* name is the final path segment of url cut at its first `.`.
IsStem(name, url) ==
    \E s \in 1..(Len(url) + 1) :
        LET seg == SubSeq(url, s, Len(url))
        IN  /\ s = 1 \/ url[s - 1] = "/"
            /\ \A k \in 1..Len(seg) : seg[k] # "/"
            /\ Len(name) <= Len(seg)
            /\ name = SubSeq(seg, 1, Len(name))
            /\ \A k \in 1..Len(name) : name[k] # "."
            /\ Len(name) = Len(seg) \/ seg[Len(name) + 1] = "."

\* C7: the manifest built from a link sequence has no vector for its first
\* link nor for a link containing `00readme_H`, and exactly one vector per
\* remaining link, in input order, named by the final path segment cut at
\* its first `.`, with input `<name>.bin` and empty source_hash and result.
C7_ManifestOfLinks ==
    pc = "download" =>
        LET kept == { i \in 2..Len(links) : ~Contains(links[i], README_MARK) }
            rank(i) == Cardinality({ j \in kept : j <= i })
        IN  /\ Len(test_vectors) = Cardinality(kept)
            /\ \A i \in kept :
                  LET v == test_vectors[rank(i)]
                  IN  /\ v.source = links[i]
                      /\ IsStem(v.name, links[i])
                      /\ v.input = v.name \o <<".","b","i","n">>
                      /\ v.source_hash = << >>
                      /\ v.result = << >>

\* A first link that is no readme and a later readme link are both left
\* out, and two different vectors follow in the order of their links.
C7_Witness ==
    /\ pc = "download"
    /\ Len(links) >= 4
    /\ ~Contains(links[1], README_MARK)
    /\ \E i \in 2..Len(links) : Contains(links[i], README_MARK)
    /\ Len(test_vectors) = 2
    /\ test_vectors[1].name = <<"B">>
    /\ test_vectors[2].name = <<"A","_","1">>

\* C8: leading `#` and blank lines are skipped and only the first
\* substantive line counts: a file yields the result that its first
\* substantive line yields alone, whatever precedes and follows that line.
C8_FirstSubstantiveLineOnly ==
    pc = "persist" => test_vectors[1].result = test_vectors[2].result

\* Two comment lines, a data line and a further data line: the result is
\* the first data line's hash.
C8_Witness ==
    /\ pc = "persist"
    /\ shape.kind = "layout2"
    /\ shape.prefix = CommentLine \o CommentLine
    /\ shape.tail = <<"f","f"," ","*","q","\n">>
    /\ test_vectors[1].result = Upper[shape.hash]
    /\ test_vectors[2].result = Upper[shape.hash]

\* C9: the vectors of the suite a run builds come only from the links of
\* the listing page fetched in that run.
C9_SuiteFromOwnListing ==
    pc = "download" =>
        \A i \in 1..Len(test_vectors) :
            \E k \in 1..Len(page) :
                /\ IsHrefAnchor(page[k])
                /\ test_vectors[i].source = BASE_URL \o HrefOf(page[k])

\* C10: the `while True` loop of _fill_checksum_h265 ends for every file:
\* once entered it is eventually left.
C10_LoopTerminates == (pc = "fill") ~> (pc # "fill")

\* The loop was left on a file of comment and blank lines only.
C10_Witness ==
    /\ pc = "persist"
    /\ shape.kind = "none"
    /\ shape.prefix = CommentLine \o BlankLine
    /\ shape.tail = <<"#","c">>

====
